---------------------------- MODULE Spec2Model ----------------------------
(***************************************************************************)
(* Model of the columnar store of wyattgill9/rstd:                         *)
(*   schema::TypeRegistry  (schema.hh)  - runtime struct layout            *)
(*   Column / Table / TSDB (tsdb.hh)    - per-field columns, lazy tables   *)
(*                                                                         *)
(* u32 quantities that the layout arithmetic can overflow (TypeMeta.size,  *)
(* Field.byte_offset, the running total_size) are kept as two 16-bit       *)
(* halves [hi, lo]; AddU32 wraps modulo 2^32 exactly as the C++ does.      *)
(***************************************************************************)
EXTENDS Integers, Naturals, Sequences, FiniteSets, TLC

VARIABLES
    ndebug,     \* build flavour: TRUE when assert() is compiled out (NDEBUG)
    types,      \* TypeRegistry::types_   (handle h is types[h + 1])
    fields,     \* TypeRegistry::fields_  (global append-only field table)
    tables,     \* TSDB::tables_          (function: handle -> Table)
    q,          \* what the last operation returned, if it was a query_all_into
    err,        \* how the last operation ended: "ok" or the exception thrown
    status,     \* "running", or "aborted" once the process has died
    last,       \* [op, type]: the last operation and its handle argument
    attempts,   \* history: the handle of every TSDB::insert call made so far
    inserted,   \* history: inserted[h] = records whose insert returned normally
    regs,       \* history: [handle, field_types] of every register_struct
                \* call that returned
    opt,        \* an Option<int> object (option.hh): its data_
    oret,       \* what the last call on opt returned
    ocall,      \* the last call on opt: [op, arg, before]
    res,        \* a Result<int, Error> object (result.hh): its data_
    rcall,      \* the last call on res: [op, fn, before, out, invoked, origin]
    begin_,     \* HugePageAlloc::begin_ (a 64-bit address; null before mmap)
    cur_,       \* HugePageAlloc::cur_
    regions,    \* history: [addr, size] of every region allocate has returned
                \* since the last reset
    hcall       \* the last call on the allocator: [op, size, alignment, ret,
                \* used_before]

storeVars == <<tables, q, err, attempts, inserted>>
optVars == <<opt, oret, ocall>>
resVars == <<res, rcall>>
hpaVars == <<begin_, cur_, regions, hcall>>

vars == <<ndebug, types, fields, tables, q, err, status, last, attempts, inserted,
          regs, opt, oret, ocall, res, rcall, begin_, cur_, regions, hcall>>

-----------------------------------------------------------------------------
(* Bounds of the model                                                     *)

MaxStructs == 2        \* register_struct calls in Spec
MaxFieldTable == 3     \* length of fields_ in Spec
MaxInserts == 2        \* TSDB::insert calls in Spec
MaxStructsL == 4       \* register_struct calls in SpecLayout
WideFields == 256      \* length of the wide field lists of SpecLayout
MaxValue == 5          \* the ints held by the Option of SpecOption: 1..MaxValue
MaxStructsR == 2       \* register_struct calls that return in SpecRegistry
MaxChain == 3          \* calls chained on one Result in SpecResult
MaxAllocs == 3         \* regions allocated between two resets in SpecAlloc

-----------------------------------------------------------------------------
(* u32 arithmetic                                                          *)

W16 == 256 * 256

\* a number below 2^31 as a u32
u32(n) == [hi |-> n \div W16, lo |-> n % W16]

\* the value of a u32 / wide number whose value is below 2^31
Val(u) == u.hi * W16 + u.lo

\* exact sum of two wide numbers (hi is unbounded)
BigAdd(a, b) ==
    LET lo == a.lo + b.lo
    IN  [hi |-> a.hi + b.hi + lo \div W16, lo |-> lo % W16]

BigLeq(a, b) == a.hi < b.hi \/ (a.hi = b.hi /\ a.lo <= b.lo)

\* u32 + u32 in C++: the sum modulo 2^32
AddU32(a, b) ==
    LET s == BigAdd(a, b)
    IN  [hi |-> s.hi % W16, lo |-> s.lo]

\* TypeRegistry::align_up: (value + alignment - 1) & ~(alignment - 1), in u32.
\* For a power of two alignment <= 2^15 the mask clears the low bits of lo.
\* For alignment 0 (reached only with assert compiled out) the mask
\* ~(0 - 1) is 0, and so is the result.
align_up(value, alignment) ==
    IF alignment = 0 THEN u32(0)
    ELSE LET t == AddU32(value, u32(alignment - 1))
         IN  [hi |-> t.hi, lo |-> t.lo - (t.lo % alignment)]

\* the assert of align_up: std::has_single_bit(alignment)
has_single_bit(alignment) == alignment \in {1, 2, 4, 8}

Max(a, b) == IF a >= b THEN a ELSE b

-----------------------------------------------------------------------------
(* 64-bit arithmetic (std::size_t, uintptr_t, pointers)                 *)

\* a 64-bit word is four 16-bit limbs, the least significant first
W64(n) == <<n % W16, n \div W16, 0, 0>>

nullptr == <<0, 0, 0, 0>>

\* the limb sums of a + b with their carries, before reduction
Sums64(a, b) ==
    LET s1 == a[1] + b[1]
        s2 == a[2] + b[2] + s1 \div W16
        s3 == a[3] + b[3] + s2 \div W16
        s4 == a[4] + b[4] + s3 \div W16
    IN  <<s1, s2, s3, s4>>

\* a + b in 64 bits: the sum modulo 2^64
Add64(a, b) == [i \in 1..4 |-> Sums64(a, b)[i] % W16]

\* does a + b leave the 64-bit range?
Carry64(a, b) == Sums64(a, b)[4] >= W16

\* a - b in 64 bits: a + ~b + 1 modulo 2^64
Sub64(a, b) == Add64(Add64(a, [i \in 1..4 |-> W16 - 1 - b[i]]), W64(1))

\* a <= b, unsigned
Leq64(a, b) ==
    \/ a[4] < b[4]
    \/ a[4] = b[4] /\ a[3] < b[3]
    \/ a[4] = b[4] /\ a[3] = b[3] /\ a[2] < b[2]
    \/ a[4] = b[4] /\ a[3] = b[3] /\ a[2] = b[2] /\ a[1] <= b[1]

\* a % m for 0 < m <= 2^15
Mod64(a, m) ==
    LET r4 == a[4] % m
        r3 == (r4 * W16 + a[3]) % m
        r2 == (r3 * W16 + a[2]) % m
    IN  (r2 * W16 + a[1]) % m

-----------------------------------------------------------------------------
(* HugePageAlloc<1, Huge2MB>  (hugepagealloc.hh)                           *)

Huge2MB == 2097152
NumPages == 1

\* cap_ = NumPages * PageSize
cap_ == W64(NumPages * Huge2MB)

\* HugePageAlloc::end: begin_ + cap_
end(b) == Add64(b, cap_)

\* HugePageAlloc::align_up: value + (alignment - value % alignment) % alignment
HugePageAlloc_align_up(value, alignment) ==
    Add64(value, W64((alignment - Mod64(value, alignment)) % alignment))

\* HugePageAlloc::used: cur_ - begin_
used(b, c) == Sub64(c, b)

\* HugePageAlloc::available: end() - cur_
available(b, c) == Sub64(end(b), c)

\* HugePageAlloc::allocate. aligned + size is pointer arithmetic: when it
\* leaves the address space (undefined behaviour) next is either the wrapped
\* address (wraps), or the test next <= end() is taken to fail.
allocate(b, c, size, alignment, wraps) ==
    LET aligned == HugePageAlloc_align_up(c, alignment)
        next == Add64(aligned, size)
        overflow == Carry64(aligned, size)
    IN  IF (~overflow \/ wraps) /\ Leq64(next, end(b))
        THEN [cur |-> next, ret |-> aligned]
        ELSE [cur |-> c, ret |-> nullptr]

\* HugePageAlloc::reset: cur_ = begin_
reset(b) == b

-----------------------------------------------------------------------------
(* TypeRegistry                                                            *)

U64 == 0
U8 == 3
NUM_PRIMITIVES == 11

\* ~TypeHandle(0): all 32 bits set, written here as the signed reading of
\* those bits (handles are only compared and used as indices, never added)
INVALID_TYPE == -1

TypeMeta(sz, al, k, fo, fc) ==
    [size |-> sz, alignment |-> al, kind |-> k,
     fields_offset |-> fo, fields_count |-> fc]

init_primitives ==
    << TypeMeta(u32(8), 8, "U64", 0, 0),
       TypeMeta(u32(4), 4, "U32", 0, 0),
       TypeMeta(u32(2), 2, "U16", 0, 0),
       TypeMeta(u32(1), 1, "U8", 0, 0),
       TypeMeta(u32(8), 8, "I64", 0, 0),
       TypeMeta(u32(4), 4, "I32", 0, 0),
       TypeMeta(u32(2), 2, "I16", 0, 0),
       TypeMeta(u32(1), 1, "I8", 0, 0),
       TypeMeta(u32(8), 8, "F64", 0, 0),
       TypeMeta(u32(4), 4, "F32", 0, 0),
       TypeMeta(u32(1), 1, "BOOL", 0, 0) >>

size_of(tys, h) == tys[h + 1].size
align_of(tys, h) == tys[h + 1].alignment
type_of(tys, h) == tys[h + 1].kind

\* a faulty fields_of: the span starts at fields_.data(), not at fields_offset
fields_of_IgnoresOffset(tys, fs, h) ==
    [i \in 1..tys[h + 1].fields_count |-> fs[i]]

\* TypeRegistry::fields_of: { fields_.data() + fields_offset, fields_count }
fields_of(tys, fs, h) ==
    LET meta == tys[h + 1]
    IN  [i \in 1..meta.fields_count |-> fs[meta.fields_offset + i]]

\* One iteration of the loop of register_struct over field_types[i].
WalkStep(tys, acc, ft) ==
    LET field_meta == tys[ft.type + 1]
        field_align == field_meta.alignment
        off == align_up(acc.total_size, field_align)
    IN  [total_size |-> AddU32(off, field_meta.size),
         max_align |-> Max(acc.max_align, field_align),
         out |-> Append(acc.out,
                        [type |-> ft.type, byte_offset |-> off, name |-> ft.name])]

\* The loop of register_struct over field_types[lo..hi], in order, from acc.
\* (The range is walked in two halves to keep the evaluation shallow.)
RECURSIVE Walk(_, _, _, _, _)
Walk(tys, field_types, lo, hi, acc) ==
    IF lo > hi THEN acc
    ELSE IF lo = hi THEN WalkStep(tys, acc, field_types[lo])
    ELSE LET mid == (lo + hi) \div 2
             left == Walk(tys, field_types, lo, mid, acc)
         IN  IF Len(left.out) >= 0    \* (evaluates the left half first)
             THEN Walk(tys, field_types, mid + 1, hi, left)
             ELSE acc

\* a faulty StructSize: the total is not rounded up (no trailing padding)
StructSize_NoTrailingPad(total_size, max_align) == total_size

\* register_struct, after the loop: total_size = align_up(total_size, max_align)
StructSize(total_size, max_align) == align_up(total_size, max_align)

\* a faulty register_type: the handle is taken after the push_back
register_type_HandleAfter(tys, meta) ==
    [types |-> Append(tys, meta), handle |-> Len(tys) + 1]

\* TypeRegistry::register_type: handle = types_.size(); types_.push_back(meta)
register_type(tys, meta) ==
    [types |-> Append(tys, meta), handle |-> Len(tys)]

\* register_struct, where the reads types_[type] of the loop see mem (which is
\* types_ itself wherever the handle is within types_): the new fields_ and
\* types_, and the handle returned
register_struct_reading(mem, tys, fs, field_types) ==
    LET w == Walk(mem, field_types, 1, Len(field_types),
                  [total_size |-> u32(0), max_align |-> 1, out |-> <<>>])
        meta == TypeMeta(StructSize(w.total_size, w.max_align), w.max_align,
                         "STRUCT", Len(fs), Len(field_types))
        r == register_type(tys, meta)
    IN  [fields |-> fs \o w.out, types |-> r.types, handle |-> r.handle]

\* register_struct with field type handles that are all within types_
register_struct(tys, fs, field_types) ==
    register_struct_reading(tys, tys, fs, field_types)

Handles == 0..(Len(types) - 1)
StructHandles == {h \in Handles : type_of(types, h) = "STRUCT"}

-----------------------------------------------------------------------------
(* Column                                                                  *)

\* Column::Column; the assert(elem_size_ > 0) is ColumnCtorOk
Column(name, element_size) ==
    [name |-> name, elem_size |-> element_size, data |-> <<>>]

ColumnCtorOk(element_size) == element_size > 0

\* a faulty append: the element replaces the buffer
ColumnAppend_Overwrites(col, source) == [col EXCEPT !.data = source]

\* Column::append: data_.insert(data_.end(), source, source + elem_size_)
ColumnAppend(col, source) == [col EXCEPT !.data = @ \o source]

\* Column::num_rows, defined for elem_size_ > 0 (a division by zero otherwise)
ColumnNumRows(col) == Len(col.data) \div col.elem_size

-----------------------------------------------------------------------------
(* Table                                                                   *)

\* the bytes [off, off + n) of a record (0-based offsets)
Slice(data, off, n) == [j \in 1..n |-> data[off + j]]

\* Table::Table: struct_size_ and one Column per field
TableCtor(tys, fs, h) ==
    LET fl == fields_of(tys, fs, h)
    IN  [struct_type |-> h,
         struct_size |-> size_of(tys, h),
         columns |-> [i \in 1..Len(fl) |->
                        Column(fl[i].name, Val(size_of(tys, fl[i].type)))]]

\* the asserts run by Table::Table and by the Column constructors it calls
TableCtorOk(tys, fs, h) ==
    /\ type_of(tys, h) = "STRUCT"
    /\ \A i \in 1..tys[h + 1].fields_count :
          ColumnCtorOk(Val(size_of(tys, fs[tys[h + 1].fields_offset + i].type)))

\* Table::insert, where the append to column fp throws (fp = 0: none does):
\* the columns before fp have taken their element, the others have not.
TableInsert(t, fl, data, fp) ==
    [t EXCEPT !.columns =
        [i \in 1..Len(t.columns) |->
            IF fp = 0 \/ i < fp
            THEN ColumnAppend(t.columns[i],
                              Slice(data, Val(fl[i].byte_offset),
                                    t.columns[i].elem_size))
            ELSE t.columns[i]]]

\* Table::num_rows, defined unless column 0 has elem_size_ = 0
TableNumRows(t) ==
    IF Len(t.columns) = 0 THEN 0 ELSE ColumnNumRows(t.columns[1])

\* the (row, column) pairs whose memcpy covers destination offset o
Writers(t, fl, row_count, o) ==
    {w \in (0..(row_count - 1)) \X (1..Len(t.columns)) :
        LET base == w[1] * Val(t.struct_size) + Val(fl[w[2]].byte_offset)
        IN  base <= o /\ o < base + t.columns[w[2]].elem_size}

\* the last of them in loop order (rows outer, columns inner)
LastWriter(ws) ==
    CHOOSE w \in ws : \A v \in ws : v[1] < w[1] \/ (v[1] = w[1] /\ v[2] <= w[2])

\* does the loop of query_all_into read past the end of some column?
ReadsPastEnd(t, row_count) ==
    \E i \in 1..Len(t.columns) :
        row_count * t.columns[i].elem_size > Len(t.columns[i].data)

\* Table::query_all_into for a given row_count: the destination bytes written,
\* as a function from destination offsets (0-based) to bytes. A read past the
\* end of a column yields the byte g.
TableQuery(t, fl, row_count, g) ==
    LET offs == UNION {
                  {w[1] * Val(t.struct_size) + Val(fl[w[2]].byte_offset) + j :
                      j \in 0..(t.columns[w[2]].elem_size - 1)} :
                  w \in (0..(row_count - 1)) \X (1..Len(t.columns)) }
    IN  [o \in offs |->
            LET w == LastWriter(Writers(t, fl, row_count, o))
                col == t.columns[w[2]]
                k == w[1] * col.elem_size
                     + (o - (w[1] * Val(t.struct_size) + Val(fl[w[2]].byte_offset)))
                     + 1
            IN  IF k <= Len(col.data) THEN col.data[k] ELSE g]

-----------------------------------------------------------------------------
(* TSDB                                                                    *)

\* a faulty get_or_create_table: the new table replaces the whole map
get_or_create_table_Replaces(tbls, h, newt) ==
    IF h \in DOMAIN tbls THEN tbls ELSE (h :> newt)

\* TSDB::get_or_create_table: tables_.try_emplace(type, type, registry_)
get_or_create_table(tbls, h, newt) ==
    IF h \in DOMAIN tbls THEN tbls ELSE tbls @@ (h :> newt)

-----------------------------------------------------------------------------
(* Option<int>  (option.hh)                                                *)

\* data_ of an Option: a std::optional<int>, disengaged or holding a value
NoneOpt == [has_value |-> FALSE, value |-> 0]
Some(value) == [has_value |-> TRUE, value |-> value]

is_some(o) == o.has_value
is_none(o) == ~o.has_value

\* auto old = std::move(*this): the implicit move constructor moves data_;
\* old holds what *this held, and a moved-from optional<int> stays engaged
\* with its value
MovedTo(o) == o
MovedFrom(o) == o

\* a faulty take: data_ is not reset after the move
take_NoReset(o) == [self |-> MovedFrom(o), ret |-> MovedTo(o)]

\* Option::take: old = std::move(*this); data_ = std::nullopt; return old
take(o) == [self |-> NoneOpt, ret |-> MovedTo(o)]

\* Option::replace: old = std::move(*this); data_ = std::move(value); return old
replace(o, value) == [self |-> Some(value), ret |-> MovedTo(o)]

\* Option::insert: data_ = std::move(value); return *data_
insert(o, value) == [self |-> Some(value), ret |-> Some(value).value]

\* a faulty get_or_insert: the value is stored whether o is None or not
get_or_insert_Overwrites(o, value) == insert(o, value)

\* Option::get_or_insert: if (is_none()) data_ = std::move(value); return *data_
get_or_insert(o, value) ==
    LET d == IF is_none(o) THEN Some(value) ELSE o
    IN  [self |-> d, ret |-> d.value]

\* Option::take_if with the predicate x > limit (as in TEST(option_mutation))
take_if(o, limit) ==
    IF is_some(o) /\ o.value > limit THEN take(o)
    ELSE [self |-> o, ret |-> NoneOpt]

-----------------------------------------------------------------------------
(* Result<int, Error>  (result.hh)                                         *)

\* data_ of a Result: a std::expected<T, E>, holding a value or an error
Ok(value) == [has_value |-> TRUE, value |-> value, error |-> "none"]
Err(error) == [has_value |-> FALSE, value |-> 0, error |-> error]

is_ok(r) == r.has_value
is_err(r) == ~r.has_value

\* an Option<E> holding no error
NoneErr == [has_value |-> FALSE, value |-> "none"]

\* the functions supplied to map and to map_err, and what they compute
MapFns == {"double", "inc"}
Apply(f, x) == IF f = "double" THEN x * 2 ELSE x + 1
ErrFns == {"describe", "invalid"}
ApplyErr(g, e) ==
    IF g = "invalid" THEN "InvalidInput"
    ELSE IF e = "NotFound" THEN "missing" ELSE "parse failed"

\* the functions supplied to and_then: divide(x, 2) and divide(x, 0) of the
\* tests (b == 0 gives Err(InvalidInput), otherwise Ok(a / b))
ThenFns == {"halve", "div0"}
ApplyThen(f, x) == IF f = "div0" THEN Err("InvalidInput") ELSE Ok(x \div 2)

\* one invocation of a supplied function
Invoked(f, x) == <<[fn |-> f, arg |-> x]>>

\* a faulty map: f is invoked whatever the Result holds
map_NoShortCircuit(r, f) ==
    [result |-> Ok(Apply(f, r.value)), invoked |-> Invoked(f, r.value)]

\* Result::map: Ok(f(*data_)) if is_ok(), else err(data_.error())
map(r, f) ==
    IF is_ok(r)
    THEN [result |-> Ok(Apply(f, r.value)), invoked |-> Invoked(f, r.value)]
    ELSE [result |-> Err(r.error), invoked |-> <<>>]

\* Result::map_err: err(f(data_.error())) if is_err(), else ok(*data_)
map_err(r, g) ==
    IF is_err(r)
    THEN [result |-> Err(ApplyErr(g, r.error)), invoked |-> Invoked(g, r.error)]
    ELSE [result |-> Ok(r.value), invoked |-> <<>>]

\* Result::and_then: f(*data_) if is_ok(), else ResultType::err(data_.error())
and_then(r, f) ==
    IF is_ok(r)
    THEN [result |-> ApplyThen(f, r.value), invoked |-> Invoked(f, r.value)]
    ELSE [result |-> Err(r.error), invoked |-> <<>>]

\* Option::ok_or: ok(*data_) if is_some(), else err(error)
ok_or(o, error) == IF is_some(o) THEN Ok(o.value) ELSE Err(error)

\* a faulty ok_value: the emptiness test is inverted
ok_value_Inverted(r) == IF is_err(r) THEN Some(r.value) ELSE NoneOpt

\* Result::ok_value: some(*data_) if is_ok(), else none()
ok_value(r) == IF is_ok(r) THEN Some(r.value) ELSE NoneOpt

\* Result::err_value: some(data_.error()) if is_err(), else none()
err_value(r) == IF is_err(r) THEN Some(r.error) ELSE NoneErr

-----------------------------------------------------------------------------
(* Inputs                                                                  *)

\* the caller's record for an insert: size bytes, all distinct, marked by tag
RecordTags == {1, 2}
RecordBytes(tag, n) == [i \in 1..n |-> (100 * tag + i) % 256]

\* the bytes an out-of-bounds read may yield
GarbageBytes == {0, 255}

\* field names: the i-th field of a list is named by one of two schemes
FieldName(scheme, i) == <<scheme, i>>
NameSchemes == {"x"}

RECURSIVE SeqsOver(_, _)
SeqsOver(S, n) ==
    IF n = 0 THEN {<<>>}
    ELSE LET shorter == SeqsOver(S, n - 1)
         IN  shorter \cup {Append(s, x) : s \in {t \in shorter : Len(t) = n - 1}, x \in S}

\* the field lists Spec registers: up to room fields of type u8, u64 or any
\* struct registered so far
FieldLists(tys, room) ==
    LET cands == {U8, U64} \cup {h \in NUM_PRIMITIVES..(Len(tys) - 1) : TRUE}
    IN  {[i \in 1..Len(ts) |-> [name |-> FieldName(sc, i), type |-> ts[i]]] :
            ts \in SeqsOver(cands, room), sc \in NameSchemes}

Rep(h, k) == [i \in 1..k |-> [name |-> FieldName("x", i), type |-> h]]
NamedBy(sc, ts) == [i \in 1..Len(ts) |-> [name |-> FieldName(sc, i), type |-> ts[i]]]
Named(ts) == NamedBy("x", ts)

\* the field lists SpecLayout registers: the empty struct, padded structs,
\* and wide structs of u64 and of the newest type (nesting)
LayoutLists(tys) ==
    LET top == Len(tys) - 1
    IN  { <<>>, Named(<<U8, U64>>), NamedBy("y", <<U8, U64, U8>>),
          Named(<<U8, top, top>>),
          Rep(U64, WideFields), Rep(top, WideFields) }

\* the field lists SpecRegistry registers with valid handles
SmallLists(tys) ==
    { <<>>, Named(<<U8, U64>>), Named(<<Len(tys) - 1>>) }

\* handles outside [0, types_.size()): the one the new struct is about to
\* receive, and the invalid sentinel
BadHandles(tys) == {Len(tys), INVALID_TYPE}

\* what a read of types_[type] outside the vector may yield when it does not
\* trap: zeroed memory of the reserved capacity, or bytes that look like a type
GarbageMetas ==
    { TypeMeta(u32(0), 0, "U64", 0, 0), TypeMeta(u32(8), 8, "STRUCT", 0, 0) }

\* what a caller may store through the reference types() returns
WrittenMetas(meta) ==
    { [meta EXCEPT !.size = u32(16)],
      [meta EXCEPT !.alignment = 1],
      [meta EXCEPT !.kind = "BOOL"] }

-----------------------------------------------------------------------------
(* The state machine                                                       *)

NoQuery == [type |-> 0, returned |-> FALSE, ret |-> 0, dest |-> <<>>]

\* no Result has been constructed yet (Result() is deleted)
NoResult == [has_value |-> FALSE, value |-> 0, error |-> "unconstructed"]
NoOrigin == [set |-> FALSE, opt |-> NoneOpt, error |-> "none"]
NoCall == [op |-> "init", fn |-> "none", before |-> NoResult, out |-> NoneOpt,
           invoked |-> <<>>, origin |-> NoOrigin, depth |-> 0]

Init ==
    /\ ndebug \in BOOLEAN
    /\ types = init_primitives
    /\ fields = <<>>
    /\ tables = <<>>
    /\ q = NoQuery
    /\ err = "ok"
    /\ status = "running"
    /\ last = [op |-> "init", type |-> 0]
    /\ attempts = <<>>
    /\ inserted = <<>>
    /\ regs = <<>>
    /\ opt = NoneOpt
    /\ oret = NoneOpt
    /\ ocall = [op |-> "init", arg |-> 0, before |-> NoneOpt]
    /\ res = NoResult
    /\ rcall = NoCall
    /\ begin_ = nullptr
    /\ cur_ = nullptr
    /\ regions = <<>>
    /\ hcall = [op |-> "init", size |-> nullptr, alignment |-> 0, ret |-> nullptr,
                used_before |-> nullptr]

Registered(field_types) ==
    LET r == register_struct(types, fields, field_types)
    IN  /\ types' = r.types
        /\ fields' = r.fields
        /\ err' = "ok"
        /\ last' = [op |-> "register", type |-> r.handle]
        /\ q' = NoQuery
        /\ regs' = Append(regs, [handle |-> r.handle, field_types |-> field_types])
        /\ UNCHANGED <<ndebug, tables, status, attempts, inserted, optVars, resVars, hpaVars>>

\* TypeRegistry::register_struct, called with valid field type handles
RegisterStruct ==
    /\ status = "running"
    /\ Len(types) - NUM_PRIMITIVES < MaxStructs
    /\ \E field_types \in FieldLists(types, MaxFieldTable - Len(fields)) :
          Registered(field_types)

\* TypeRegistry::register_struct, called with the wide and nested lists
RegisterWide ==
    /\ status = "running"
    /\ Len(types) - NUM_PRIMITIVES < MaxStructsL
    /\ \E field_types \in LayoutLists(types) : Registered(field_types)

Abort ==
    /\ status' = "aborted"
    /\ UNCHANGED <<ndebug, types, fields, tables, q, err, last, attempts, inserted,
                   regs, optVars, resVars, hpaVars>>

\* where an allocation of TSDB::insert may fail for handle h:
\*   0: nowhere;  -1: in try_emplace, building the table;
\*   i: in the append to column i (it has bytes to add)
FailPoints(h) ==
    LET fl == fields_of(types, fields, h)
    IN  {0} \cup (IF h \in DOMAIN tables THEN {} ELSE {-1})
            \cup {i \in 1..Len(fl) : Val(size_of(types, fl[i].type)) > 0}

\* TSDB::insert(data, type), data a record of size_of(type) bytes
Insert(h, tag, fp) ==
    LET data == RecordBytes(tag, Val(size_of(types, h)))
        fl == fields_of(types, fields, h)
        present == h \in DOMAIN tables
        tbls == get_or_create_table(tables, h, TableCtor(types, fields, h))
        hist == IF h \in DOMAIN inserted THEN inserted[h] ELSE <<>>
    IN  /\ status = "running"
        /\ Len(attempts) < MaxInserts
        /\ IF ~ndebug /\ (type_of(types, h) # "STRUCT"
                          \/ (~present /\ ~TableCtorOk(types, fields, h)))
           THEN \* an assert of TSDB::insert, Table::Table or Column::Column fails
                Abort
           ELSE /\ attempts' = Append(attempts, h)
                /\ last' = [op |-> "insert", type |-> h]
                /\ q' = NoQuery
                /\ UNCHANGED <<ndebug, types, fields, status, regs, optVars, resVars, hpaVars>>
                /\ IF fp = -1
                   THEN /\ err' = "bad_alloc"
                        /\ UNCHANGED <<tables, inserted>>
                   ELSE /\ tables' = [tbls EXCEPT ![h] = TableInsert(@, fl, data, fp)]
                        /\ err' = IF fp = 0 THEN "ok" ELSE "bad_alloc"
                        /\ inserted' = IF fp = 0
                                       THEN (h :> Append(hist, data)) @@ inserted
                                       ELSE inserted

InsertRecord ==
    \E h \in StructHandles \cup {U64} :
        \E tag \in RecordTags, fp \in FailPoints(h) : Insert(h, tag, fp)

QueryDone(h, returned, ret, dest, e) ==
    /\ q' = [type |-> h, returned |-> returned, ret |-> ret, dest |-> dest]
    /\ err' = e
    /\ last' = [op |-> "query", type |-> h]
    /\ UNCHANGED <<ndebug, types, fields, tables, status, attempts, inserted,
                   regs, optVars, resVars, hpaVars>>

QueryCrash(h) ==
    /\ q' = [type |-> h, returned |-> FALSE, ret |-> 0, dest |-> <<>>]
    /\ status' = "aborted"
    /\ last' = [op |-> "query", type |-> h]
    /\ UNCHANGED <<ndebug, types, fields, tables, err, attempts, inserted,
                   regs, optVars, resVars, hpaVars>>

\* TSDB::query_all_into(type, dest). crash and g choose among the outcomes of
\* undefined behaviour: the division by zero of Column::num_rows (a trap, or a
\* quotient of 0) and a read past the end of a column (a trap, or the byte g).
Query(h, crash, g) ==
    /\ status = "running"
    /\ IF h \notin DOMAIN tables
       THEN \* tables_.at(type) throws std::out_of_range
            /\ ~crash /\ g = 0
            /\ QueryDone(h, FALSE, 0, <<>>, "out_of_range")
       ELSE LET t == tables[h]
                fl == fields_of(types, fields, h)
                divzero == Len(t.columns) > 0 /\ t.columns[1].elem_size = 0
                row_count == IF divzero THEN 0 ELSE TableNumRows(t)
                ub == divzero \/ ReadsPastEnd(t, row_count)
            IN  /\ ub \/ (~crash /\ g = 0)
                /\ IF ub /\ crash
                   THEN QueryCrash(h)
                   ELSE QueryDone(h, TRUE, row_count,
                                  TableQuery(t, fl, row_count, g), "ok")

QueryAllInto ==
    \E h \in StructHandles \cup {U64} :
        \E crash \in BOOLEAN, g \in GarbageBytes : Query(h, crash, g)

Next == RegisterStruct \/ InsertRecord \/ QueryAllInto

Spec == Init /\ [][Next]_vars

NextLayout == RegisterWide

SpecLayout == Init /\ [][NextLayout]_vars

\* register_struct with valid handles, by a caller of the registry alone
RegisterSmall ==
    /\ status = "running"
    /\ Len(regs) < MaxStructsR
    /\ \E field_types \in SmallLists(types) : Registered(field_types)

\* register_struct({{"x1", U8}, {"x2", bad}}) with bad outside types_: the code
\* makes no check, and types_[bad] reads outside the vector. The read traps
\* (crash), or yields the bytes g and the registration goes on with them.
RegisterBad(bad, crash, g) ==
    LET field_types == Named(<<U8, bad>>)
        mem == (bad + 1 :> g) @@ types
        r == register_struct_reading(mem, types, fields, field_types)
    IN  /\ status = "running"
        /\ Len(regs) < MaxStructsR
        /\ IF crash \/ (~ndebug /\ ~has_single_bit(g.alignment))
           THEN \* the read traps, or the assert of align_up fails
                Abort
           ELSE /\ types' = r.types
                /\ fields' = r.fields
                /\ last' = [op |-> "register", type |-> r.handle]
                /\ regs' = Append(regs, [handle |-> r.handle,
                                         field_types |-> field_types])
                /\ UNCHANGED <<ndebug, status, storeVars, optVars, resVars, hpaVars>>

RegisterInvalid ==
    \E bad \in BadHandles(types), crash \in BOOLEAN, g \in GarbageMetas :
        RegisterBad(bad, crash, g)

\* a caller stores into types()[U64], or removes the last element of the
\* vector types() returns (types().pop_back())
TypesWrite ==
    /\ status = "running"
    /\ \/ \E meta \in WrittenMetas(types[U64 + 1]) :
             types' = [types EXCEPT ![U64 + 1] = meta]
       \/ /\ Len(types) >= NUM_PRIMITIVES
          /\ types' = SubSeq(types, 1, Len(types) - 1)
    /\ last' = [op |-> "types", type |-> 0]
    /\ UNCHANGED <<ndebug, fields, status, regs, storeVars, optVars, resVars, hpaVars>>

NextRegistry == RegisterSmall \/ RegisterInvalid \/ TypesWrite

SpecRegistry == Init /\ [][NextRegistry]_vars

\* a call on opt has returned: the object, the return value, the call
OptionCalled(done, op, arg) ==
    /\ opt' = done.self
    /\ oret' = done.ret
    /\ ocall' = [op |-> op, arg |-> arg, before |-> opt]
    /\ UNCHANGED <<ndebug, types, fields, status, last, regs, storeVars,
                   resVars, hpaVars>>

Values == 1..MaxValue

OptTake == OptionCalled(take(opt), "take", 0)
OptReplace == \E w \in Values : OptionCalled(replace(opt, w), "replace", w)
OptInsert == \E v \in Values : OptionCalled(insert(opt, v), "insert", v)
OptGetOrInsert ==
    \E v \in Values : OptionCalled(get_or_insert(opt, v), "get_or_insert", v)
OptTakeIf ==
    \E limit \in {0, MaxValue \div 2} :
        OptionCalled(take_if(opt, limit), "take_if", limit)

NextOption == OptTake \/ OptReplace \/ OptInsert \/ OptGetOrInsert \/ OptTakeIf

SpecOption == Init /\ [][NextOption]_vars

Errors == {"NotFound", "InvalidInput", "OutOfRange"}

\* a call has returned: r is the Result the chain goes on with, out what the
\* call returned, invoked the supplied functions it invoked
ResultCalled(r, out, op, fn, invoked, origin, depth) ==
    /\ res' = r
    /\ rcall' = [op |-> op, fn |-> fn, before |-> res, out |-> out,
                 invoked |-> invoked, origin |-> origin, depth |-> depth]
    /\ UNCHANGED <<ndebug, types, fields, status, last, regs, storeVars,
                   optVars, hpaVars>>

\* a Result exists and fewer than MaxChain calls were chained on it
Chainable == rcall.op # "init" /\ rcall.depth < MaxChain

\* Result<int, Error>(Ok(v)) and Result<int, Error>(Err(e))
ResNew ==
    \E r \in {Ok(v) : v \in Values} \cup {Err(e) : e \in Errors} :
        ResultCalled(r, r, "new", "none", <<>>, NoOrigin, 0)

ResMap ==
    /\ Chainable
    /\ \E f \in MapFns :
          LET m == map(res, f)
          IN  ResultCalled(m.result, m.result, "map", f, m.invoked, NoOrigin,
                           rcall.depth + 1)

ResMapErr ==
    /\ Chainable
    /\ \E g \in ErrFns :
          LET m == map_err(res, g)
          IN  ResultCalled(m.result, m.result, "map_err", g, m.invoked, NoOrigin,
                           rcall.depth + 1)

ResAndThen ==
    /\ Chainable
    /\ \E f \in ThenFns :
          LET m == and_then(res, f)
          IN  ResultCalled(m.result, m.result, "and_then", f, m.invoked, NoOrigin,
                           rcall.depth + 1)

\* o.ok_or(e) for an Option o: the Result it returns starts a chain
ResOkOr ==
    \E o \in {NoneOpt} \cup {Some(v) : v \in Values}, e \in Errors :
        ResultCalled(ok_or(o, e), ok_or(o, e), "ok_or", "none", <<>>,
                     [set |-> TRUE, opt |-> o, error |-> e], 0)

\* the conversions return an Option; a moved-from Result<int, Error> keeps
\* what it held
ResOkValue ==
    /\ Chainable
    /\ ResultCalled(res, ok_value(res), "ok_value", "none", <<>>, rcall.origin,
                    rcall.depth + 1)

ResErrValue ==
    /\ Chainable
    /\ ResultCalled(res, err_value(res), "err_value", "none", <<>>, rcall.origin,
                    rcall.depth + 1)

NextResult ==
    ResNew \/ ResMap \/ ResMapErr \/ ResAndThen \/ ResOkOr \/ ResOkValue \/ ResErrValue

SpecResult == Init /\ [][NextResult]_vars

\* the addresses mmap may return for the arena: page aligned, in user space
MmapAddrs == { <<0, 49184, 32570, 0>>, <<12288, 49170, 32570, 0>> }

\* the sizes asked of allocate: small ones, half the arena, one byte more than
\* the arena, and SIZE_MAX
SIZE_MAX == <<W16 - 1, W16 - 1, W16 - 1, W16 - 1>>
AllocSizes == { W64(0), W64(24), W64(Huge2MB \div 2), W64(Huge2MB + 1), SIZE_MAX }

\* the alignments asked of allocate (64 is the default)
Alignments == {1, 64, 4096}

HpaCalled(b, c, rs, op, size, alignment, ret) ==
    /\ begin_' = b
    /\ cur_' = c
    /\ regions' = rs
    /\ hcall' = [op |-> op, size |-> size, alignment |-> alignment, ret |-> ret,
                 used_before |-> used(begin_, cur_)]
    /\ UNCHANGED <<ndebug, types, fields, status, last, regs, storeVars, optVars,
                   resVars>>

\* HugePageAlloc::HugePageAlloc, where alloc_pages returned an address
HpaConstruct ==
    /\ hcall.op = "init"
    /\ \E p \in MmapAddrs : HpaCalled(p, p, <<>>, "construct", nullptr, 0, nullptr)

\* HugePageAlloc::allocate(size, alignment)
HpaAllocate ==
    /\ hcall.op # "init"
    /\ Len(regions) < MaxAllocs
    /\ \E size \in AllocSizes, alignment \in Alignments, wraps \in BOOLEAN :
          LET r == allocate(begin_, cur_, size, alignment, wraps)
          IN  HpaCalled(begin_, r.cur,
                        IF r.ret = nullptr THEN regions
                        ELSE Append(regions, [addr |-> r.ret, size |-> size]),
                        "allocate", size, alignment, r.ret)

\* HugePageAlloc::reset
HpaReset ==
    /\ hcall.op # "init"
    /\ HpaCalled(begin_, reset(begin_), <<>>, "reset", nullptr, 0, nullptr)

NextAlloc == HpaConstruct \/ HpaAllocate \/ HpaReset

SpecAlloc == Init /\ [][NextAlloc]_vars

-----------------------------------------------------------------------------
(* Properties                                                              *)

FieldsOf(h) == fields_of(types, fields, h)
SizeOf(h) == Val(size_of(types, h))
FieldSize(f) == Val(size_of(types, f.type))

\* (hi * 2^16 + lo) mod a
ModU32(u, a) == ((u.hi % a) * (W16 % a) + u.lo) % a

MaxAlignOf(fl) ==
    IF Len(fl) = 0 THEN 1
    ELSE CHOOSE a \in {align_of(types, fl[i].type) : i \in 1..Len(fl)} :
            \A i \in 1..Len(fl) : align_of(types, fl[i].type) <= a

\* the exact (unwrapped) sum of the sizes of fields lo..hi
RECURSIVE SumSizes(_, _, _)
SumSizes(fl, lo, hi) ==
    IF lo > hi THEN u32(0)
    ELSE IF lo = hi THEN size_of(types, fl[lo].type)
    ELSE LET mid == (lo + hi) \div 2
         IN  BigAdd(SumSizes(fl, lo, mid), SumSizes(fl, mid + 1, hi))

\* a query of struct handle h has just returned to its caller, and some insert
\* for h returned normally before it
QueriedAfterInsert(h) ==
    /\ status = "running"
    /\ last = [op |-> "query", type |-> h]
    /\ q.returned
    /\ h \in StructHandles
    /\ h \in DOMAIN inserted

\* row r of the queried destination holds record rec, field by field
RowHolds(h, r, rec) ==
    \A i \in 1..Len(FieldsOf(h)) :
        \A j \in 0..(FieldSize(FieldsOf(h)[i]) - 1) :
            LET off == Val(FieldsOf(h)[i].byte_offset)
                o == r * SizeOf(h) + off + j
            IN  o \in DOMAIN q.dest /\ q.dest[o] = rec[off + j + 1]

\* C1 (round trip): when query_all_into(H, dest) returns after an insert of a
\* record for H, every field of the row of the most recent insert for H holds,
\* at the field's offset, the bytes the record had at that offset.
C1_RoundTrip ==
    \A h \in StructHandles :
        QueriedAfterInsert(h) =>
            RowHolds(h, Len(inserted[h]) - 1, inserted[h][Len(inserted[h])])

\* C2 (order preservation): when query_all_into(H, dest) returns, row i of the
\* result holds the field values of the (i+1)-th record inserted for H, for
\* every i, whatever was inserted for other handles in between.
C2_OrderPreserved ==
    \A h \in StructHandles :
        QueriedAfterInsert(h) =>
            \A r \in 1..Len(inserted[h]) : RowHolds(h, r - 1, inserted[h][r])

\* C3 (row count equals insert count): after n >= 1 inserts for struct handle H
\* have returned, H has a table, and a query_all_into(H, dest) that returns,
\* returns n.
C3_RowCountIsInsertCount ==
    \A h \in StructHandles :
        /\ h \in DOMAIN inserted => h \in DOMAIN tables
        /\ QueriedAfterInsert(h) => q.ret = Len(inserted[h])

\* C4 (monotone store): no step removes a table, removes a column, changes a
\* column's element size, shortens a column's buffer or lowers its row count.
C4_Monotone ==
    [][\A h \in DOMAIN tables :
          /\ h \in DOMAIN tables'
          /\ Len(tables'[h].columns) = Len(tables[h].columns)
          /\ \A i \in 1..Len(tables[h].columns) :
                LET c == tables[h].columns[i]
                    d == tables'[h].columns[i]
                IN  /\ d.elem_size = c.elem_size
                    /\ Len(d.data) >= Len(c.data)
                    /\ c.elem_size > 0 => ColumnNumRows(d) >= ColumnNumRows(c)]_vars

\* two tables exist, one of them holds a row, and a query has just returned
C4_Witness ==
    /\ last.op = "query" /\ q.returned
    /\ \E h \in DOMAIN tables, g \in DOMAIN tables :
          /\ h # g
          /\ Len(tables[h].columns) > 0
          /\ Len(tables[h].columns[1].data) > 0

\* C5 (column synchrony): between operations, all columns of a table hold the
\* same number of rows.
C5_ColumnSync ==
    \A h \in DOMAIN tables :
        \A i, j \in {k \in 1..Len(tables[h].columns) :
                        tables[h].columns[k].elem_size > 0} :
            ColumnNumRows(tables[h].columns[i]) = ColumnNumRows(tables[h].columns[j])

\* C6 (atomic insert): a step in which an insert ends with an allocation
\* failure leaves the process running and grows no column of any table.
C6_AtomicInsert ==
    [][(Len(attempts') > Len(attempts) /\ err' = "bad_alloc") =>
          /\ status' = "running"
          /\ \A h \in DOMAIN tables' :
                \A i \in 1..Len(tables'[h].columns) :
                    Len(tables'[h].columns[i].data)
                      = IF h \in DOMAIN tables
                        THEN Len(tables[h].columns[i].data) ELSE 0]_vars

\* C7 (query before insert): a query of a struct handle for which insert was
\* never called returns 0 rows without a fault, writes nothing, creates no table.
C7_QueryBeforeInsert ==
    \A h \in StructHandles :
        (last = [op |-> "query", type |-> h]
            /\ \A k \in 1..Len(attempts) : attempts[k] # h) =>
            /\ status = "running" /\ err = "ok"
            /\ q.returned /\ q.ret = 0 /\ DOMAIN q.dest = {}
            /\ h \notin DOMAIN tables

\* C8 (alignment and trailing padding): every registered struct has a size that
\* is a multiple of its alignment, and its alignment is the largest alignment
\* of its fields' types, or 1 when it has no fields.
C8_StructAlignment ==
    \A h \in StructHandles :
        /\ ModU32(size_of(types, h), align_of(types, h)) = 0
        /\ align_of(types, h) = MaxAlignOf(FieldsOf(h))

\* a struct whose last field ends off its alignment (trailing padding was
\* added), next to a struct with no fields
C8_Witness ==
    /\ \E h \in StructHandles :
          LET fl == FieldsOf(h)
              f == fl[Len(fl)]
          IN  /\ Len(fl) >= 2
              /\ align_of(types, h) = 8
              /\ AddU32(f.byte_offset, size_of(types, f.type)) # size_of(types, h)
    /\ \E h \in StructHandles : Len(FieldsOf(h)) = 0 /\ align_of(types, h) = 1

\* C9 (size covers the fields): the size of every registered struct is at least
\* the sum of the sizes of its fields' types.
C9_SizeCoversFields ==
    \A h \in StructHandles :
        BigLeq(SumSizes(FieldsOf(h), 1, Len(FieldsOf(h))), size_of(types, h))

\* C10 (no overlap, no misalignment): in every registered struct each field
\* ends at or before the offset of the next one, and each field's offset is a
\* multiple of the alignment of its type.
C10_NoOverlapAligned ==
    \A h \in StructHandles :
        LET fl == FieldsOf(h)
        IN  \A i \in 1..Len(fl) :
                /\ ModU32(fl[i].byte_offset, align_of(types, fl[i].type)) = 0
                /\ i < Len(fl) =>
                      BigLeq(BigAdd(fl[i].byte_offset, size_of(types, fl[i].type)),
                             fl[i + 1].byte_offset)

\* the exact (unwrapped) end of field f: its offset plus the size of its type
FieldEnd(f) == BigAdd(f.byte_offset, size_of(types, f.type))

\* off is the smallest multiple of a that is >= x
SmallestMultipleAtLeast(off, a, x) ==
    /\ ModU32(off, a) = 0
    /\ BigLeq(x, off)
    /\ ~BigLeq(BigAdd(x, u32(a)), off)

\* C11 (native layout rule): in every registered struct field 0 is at offset 0,
\* each later field is at the smallest multiple of its type's alignment that is
\* at or after the end of the field before it, and the struct's size is the
\* smallest multiple of the largest field alignment at or after the end of the
\* last field; {a:u8, b:u64} has offsets 0 and 8, size 16 and alignment 8.
C11_NativeLayout ==
    \A h \in StructHandles :
        LET fl == FieldsOf(h)
            n == Len(fl)
        IN  /\ n > 0 => fl[1].byte_offset = u32(0)
            /\ \A i \in 2..n :
                  SmallestMultipleAtLeast(fl[i].byte_offset,
                                          align_of(types, fl[i].type),
                                          FieldEnd(fl[i - 1]))
            /\ SmallestMultipleAtLeast(size_of(types, h), MaxAlignOf(fl),
                                       IF n = 0 THEN u32(0) ELSE FieldEnd(fl[n]))
            /\ (n = 2 /\ fl[1].type = U8 /\ fl[2].type = U64) =>
                  /\ Val(fl[1].byte_offset) = 0
                  /\ Val(fl[2].byte_offset) = 8
                  /\ SizeOf(h) = 16
                  /\ align_of(types, h) = 8

\* C12 (field order and count): for every register_struct call that returned,
\* fields_of(its handle) has as many entries as the list it was called with,
\* and entry i has the name and the type of the i-th pair of that list,
\* whatever was registered before or after it.
C12_FieldOrder ==
    \A k \in 1..Len(regs) :
        LET ft == regs[k].field_types
            fl == FieldsOf(regs[k].handle)
        IN  /\ Len(fl) = Len(ft)
            /\ \A i \in 1..Len(ft) :
                  fl[i].name = ft[i].name /\ fl[i].type = ft[i].type

\* a struct of three fields whose types and names differ from those of the
\* struct registered before it, with another struct registered after it
C12_Witness ==
    /\ Len(regs) >= 3
    /\ Len(regs[1].field_types) >= 2
    /\ Len(regs[2].field_types) = 3
    /\ regs[2].field_types[1].type # regs[2].field_types[2].type
    /\ regs[2].field_types[2].type # regs[1].field_types[2].type
    /\ regs[2].field_types[1].name # regs[1].field_types[1].name
    /\ Len(FieldsOf(regs[2].handle)) = 3

\* C13 (primitive handles are fixed): in every state the registry can be
\* brought to through its public members, handles 0..10 are the eleven
\* primitive kinds with the sizes and alignments of init_primitives.
C13_PrimitivesFixed ==
    /\ Len(types) >= NUM_PRIMITIVES
    /\ SubSeq(types, 1, NUM_PRIMITIVES) = init_primitives

\* C14 (handle allocation): the k-th register_struct call returns the number
\* of types there were before it, 11 + (k - 1); the handles returned are
\* strictly increasing (hence unique), each is in [0, type_count), none is the
\* invalid sentinel, and each denotes a type of kind STRUCT.
C14_HandleAllocation ==
    /\ \A k \in 1..Len(regs) :
          /\ regs[k].handle = NUM_PRIMITIVES + (k - 1)
          /\ regs[k].handle \in 0..(Len(types) - 1)
          /\ regs[k].handle # INVALID_TYPE
          /\ type_of(types, regs[k].handle) = "STRUCT"
          /\ \A j \in 1..(k - 1) : regs[j].handle < regs[k].handle
    /\ (last.op = "register") =>
          last.type = Len(types) - 1 /\ last.type = regs[Len(regs)].handle

\* a third register_struct call has just returned handle 13
C14_Witness ==
    /\ last = [op |-> "register", type |-> 13]
    /\ Len(regs) = 3
    /\ regs[1].handle = 11

\* C15 (registration is append-only): no step removes an entry of the type
\* table or of the field table, and a step in which register_struct returns
\* leaves the size, alignment, kind and fields (names, types, byte offsets,
\* order) of every handle registered before it as they were.
C15_AppendOnly ==
    [][/\ Len(types') >= Len(types)
       /\ Len(fields') >= Len(fields)
       /\ Len(regs') > Len(regs) =>
             \A h \in Handles :
                /\ h + 1 \in DOMAIN types'
                /\ size_of(types', h) = size_of(types, h)
                /\ align_of(types', h) = align_of(types, h)
                /\ type_of(types', h) = type_of(types, h)
                /\ fields_of(types', fields', h) = fields_of(types, fields, h)]_vars

\* C16 (insert requires a struct handle): no TSDB::insert call with a
\* primitive handle runs past its precondition, and the store never holds a
\* table for a primitive handle.
C16_InsertNeedsStruct ==
    /\ \A k \in 1..Len(attempts) : type_of(types, attempts[k]) = "STRUCT"
    /\ \A h \in DOMAIN tables : type_of(types, h) = "STRUCT"

\* C17 (no forward references): every register_struct call that returned was
\* given only field type handles that were in [0, type_count) when it was
\* called, and every field of every registered struct refers to a handle
\* strictly smaller than the struct's own.
C17_NoForwardRefs ==
    /\ \A k \in 1..Len(regs) :
          \A i \in 1..Len(regs[k].field_types) :
              regs[k].field_types[i].type \in 0..(regs[k].handle - 1)
    /\ \A h \in StructHandles :
          \A i \in 1..Len(FieldsOf(h)) : FieldsOf(h)[i].type \in 0..(h - 1)

\* C18 (column element size is never 0): every field of every registered
\* struct has a type of size > 0, so that the table of the struct can be
\* built, and every column of every table has the size of its field's type as
\* its element size, which is > 0.
C18_ElemSizePositive ==
    \A h \in StructHandles :
        /\ \A i \in 1..Len(FieldsOf(h)) : ColumnCtorOk(FieldSize(FieldsOf(h)[i]))
        /\ h \in DOMAIN tables =>
              /\ Len(tables[h].columns) = Len(FieldsOf(h))
              /\ \A i \in 1..Len(FieldsOf(h)) :
                    /\ tables[h].columns[i].elem_size = FieldSize(FieldsOf(h)[i])
                    /\ tables[h].columns[i].elem_size > 0

\* C19 (take and replace): when o.take() has returned, o is None and the
\* Option returned is what o held before the call (Some(v) or None); when
\* o.replace(w) has returned, o is Some(w) and the Option returned is what o
\* held before the call.
C19_TakeReplace ==
    /\ ocall.op = "take" => (opt = NoneOpt /\ oret = ocall.before)
    /\ ocall.op = "replace" => (opt = Some(ocall.arg) /\ oret = ocall.before)

\* take() has just returned from an Option that held a value
C19_Witness ==
    /\ ocall.op = "take"
    /\ is_some(ocall.before)
    /\ is_some(oret)
    /\ is_none(opt)

\* C20 (get_or_insert): when o.get_or_insert(v) has returned, then if o was
\* None it is Some(v) and v was returned, and if o was Some(u) it is still
\* Some(u) and u was returned.
C20_GetOrInsert ==
    ocall.op = "get_or_insert" =>
        IF is_none(ocall.before)
        THEN opt = Some(ocall.arg) /\ oret = ocall.arg
        ELSE opt = ocall.before /\ oret = ocall.before.value

\* get_or_insert(v) has just returned from an Option holding another value u
C20_Witness ==
    /\ ocall.op = "get_or_insert"
    /\ is_some(ocall.before)
    /\ ocall.before.value # ocall.arg
    /\ oret = ocall.before.value

\* C21 (Result chaining short-circuits): when map(f) or and_then(f) has
\* returned from a Result holding Err(e), no supplied function was invoked and
\* the outcome is Err(e); from Ok(v), and_then(f) gave exactly f(v) and map(f)
\* gave Ok(f(v)), f invoked once on v. map_err(g) left Ok(v) as it was without
\* invoking g, and turned Err(e) into Err(g(e)).
C21_ShortCircuit ==
    LET b == rcall.before
    IN  /\ rcall.op = "map" =>
              IF is_err(b)
              THEN rcall.invoked = <<>> /\ res = Err(b.error)
              ELSE /\ res = Ok(Apply(rcall.fn, b.value))
                   /\ rcall.invoked = Invoked(rcall.fn, b.value)
        /\ rcall.op = "and_then" =>
              IF is_err(b)
              THEN rcall.invoked = <<>> /\ res = Err(b.error)
              ELSE /\ res = ApplyThen(rcall.fn, b.value)
                   /\ rcall.invoked = Invoked(rcall.fn, b.value)
        /\ rcall.op = "map_err" =>
              IF is_ok(b)
              THEN rcall.invoked = <<>> /\ res = Ok(b.value)
              ELSE /\ res = Err(ApplyErr(rcall.fn, b.error))
                   /\ rcall.invoked = Invoked(rcall.fn, b.error)

\* map has just returned at the end of a chain whose and_then had failed
C21_Witness ==
    /\ rcall.op = "map"
    /\ rcall.depth >= 2
    /\ rcall.before = Err("InvalidInput")
    /\ res = Err("InvalidInput")
    /\ rcall.invoked = <<>>

\* C22 (Option/Result conversions): o.ok_or(e) is Ok(v) for o = Some(v) and
\* Err(e) for None; ok_value() is Some(v) for Ok(v) and None for Err;
\* err_value() is Some(e) for Err(e) and None for Ok; hence
\* Some(v).ok_or(e).ok_value() is Some(v) and None.ok_or(e).err_value() is
\* Some(e).
C22_Conversions ==
    LET b == rcall.before
        o == rcall.origin
    IN  /\ rcall.op = "ok_or" =>
              res = IF is_some(o.opt) THEN Ok(o.opt.value) ELSE Err(o.error)
        /\ rcall.op = "ok_value" =>
              /\ rcall.out = IF is_ok(b) THEN Some(b.value) ELSE NoneOpt
              /\ (o.set /\ is_some(o.opt)) => rcall.out = o.opt
        /\ rcall.op = "err_value" =>
              /\ IF is_err(b) THEN rcall.out = Some(b.error)
                 ELSE is_none(rcall.out)
              /\ (o.set /\ is_none(o.opt)) => rcall.out = Some(o.error)

\* ok_value() has just returned Some(v) from the Result of Some(v).ok_or(e)
C22_Witness ==
    /\ rcall.op = "ok_value"
    /\ rcall.origin.set
    /\ is_some(rcall.origin.opt)
    /\ rcall.out = rcall.origin.opt


\* the destination of the query recorded in qq holds every field of each of the
\* rows it returned, and nothing when it returned 0
WroteRows(qq) ==
    /\ qq.ret = 0 => DOMAIN qq.dest = {}
    /\ \A r \in 0..(qq.ret - 1) :
          \A i \in 1..Len(FieldsOf(qq.type)) :
              \A j \in 0..(FieldSize(FieldsOf(qq.type)[i]) - 1) :
                  (r * SizeOf(qq.type) + Val(FieldsOf(qq.type)[i].byte_offset) + j)
                      \in DOMAIN qq.dest

\* C23 (query is read-only and repeatable): a query_all_into step changes no
\* table (neither the set of tables nor any column), a query that returns has
\* written the rows it counts, and a query of the handle just queried, with
\* nothing in between, returns the same row count and writes the same bytes.
C23_QueryReadOnly ==
    [][last'.op = "query" =>
          /\ tables' = tables
          /\ q'.returned => WroteRows(q')
          /\ (last' = last /\ q.returned /\ q'.returned) =>
                (q'.ret = q.ret /\ q'.dest = q.dest)]_vars

C25_InBounds ==
    /\ \A h \in StructHandles :
          \A i \in 1..Len(FieldsOf(h)) :
              BigLeq(FieldEnd(FieldsOf(h)[i]), size_of(types, h))
    /\ (last.op = "query" /\ q.returned) =>
          \A o \in DOMAIN q.dest :
              /\ 0 <= o /\ o < q.ret * SizeOf(q.type)
              /\ \E i \in 1..Len(FieldsOf(q.type)) :
                    LET off == Val(FieldsOf(q.type)[i].byte_offset)
                    IN  /\ off <= o % SizeOf(q.type)
                        /\ o % SizeOf(q.type) < off + FieldSize(FieldsOf(q.type)[i])

\* x rounded up to a multiple of a, in unbounded arithmetic
ExactAlignUp(x, a) == BigAdd(x, u32((a - ModU32(x, a)) % a))

\* C26 (no 32-bit wraparound in layout): in every registered struct, nested
\* ones included, the stored offset of each field and the stored size are the
\* values the layout walk yields in unbounded arithmetic: field 0 at 0, each
\* later field at the exact end of the field before it rounded up to its
\* alignment, the size at the exact end of the last field rounded up to the
\* struct's alignment; and a table's struct_size_ is the size of its struct.
C26_NoWraparound ==
    /\ \A h \in StructHandles :
          LET fl == FieldsOf(h)
              n == Len(fl)
          IN  /\ n > 0 => fl[1].byte_offset = u32(0)
              /\ \A i \in 2..n :
                    fl[i].byte_offset
                      = ExactAlignUp(FieldEnd(fl[i - 1]), align_of(types, fl[i].type))
              /\ size_of(types, h)
                   = ExactAlignUp(IF n = 0 THEN u32(0) ELSE FieldEnd(fl[n]),
                                  MaxAlignOf(fl))
    /\ \A h \in DOMAIN tables : tables[h].struct_size = size_of(types, h)

\* the bytes [a, a + n) lie inside the arena, without leaving the address space
InArena(a, n) ==
    /\ Leq64(begin_, a)
    /\ ~Carry64(a, n)
    /\ Leq64(Add64(a, n), end(begin_))

\* the regions [a, a + n) and [b, b + m) share no byte
Disjoint(a, n, b, m) == Leq64(Add64(a, n), b) \/ Leq64(Add64(b, m), a)

\* did the allocate recorded in hcall fit: cur_ as it was, rounded up to the
\* alignment, plus size, is at or before the end of the arena
Fits ==
    LET aligned == HugePageAlloc_align_up(Add64(begin_, hcall.used_before),
                                          hcall.alignment)
    IN  ~Carry64(aligned, hcall.size) /\ Leq64(Add64(aligned, hcall.size), end(begin_))

\* C27 (bump allocator accounting): once constructed, used() <= capacity and
\* used() + available() == capacity; an allocate that fits returns an address
\* that is a multiple of the alignment, with its size bytes inside the arena
\* and disjoint from every region returned since the last reset; an allocate
\* that does not fit returns null and leaves used() unchanged; after reset
\* used() is 0.
C27_Accounting ==
    hcall.op # "init" =>
        /\ Leq64(used(begin_, cur_), cap_)
        /\ ~Carry64(used(begin_, cur_), available(begin_, cur_))
        /\ Add64(used(begin_, cur_), available(begin_, cur_)) = cap_
        /\ hcall.op = "allocate" =>
              /\ Fits <=> hcall.ret # nullptr
              /\ hcall.ret = nullptr => used(begin_, cur_) = hcall.used_before
              /\ hcall.ret # nullptr =>
                    /\ Mod64(hcall.ret, hcall.alignment) = 0
                    /\ InArena(hcall.ret, hcall.size)
                    /\ cur_ = Add64(hcall.ret, hcall.size)
                    /\ \A k \in 1..(Len(regions) - 1) :
                          Disjoint(regions[k].addr, regions[k].size,
                                   hcall.ret, hcall.size)
        /\ hcall.op = "reset" => used(begin_, cur_) = W64(0)

=============================================================================
